---------------------------- MODULE Spec2Model ----------------------------
(***************************************************************************)
(* Comment endpoints of comments/views.py: create_comment, edit_comment,   *)
(* delete_comment, pin_comment and upvote_comment, as handlers over the    *)
(* stored tables (comments, comment votes, post counters, post views,      *)
(* users' last activity).  Every handler is a pure operator from the       *)
(* stored state and the request to the new stored state, the response and  *)
(* the bookkeeping calls it made; the actions apply the handlers.  Every   *)
(* request is made by an authenticated user (auth_required).               *)
(***************************************************************************)
EXTENDS Integers, Sequences, FiniteSets, Bags, TLC

\* Bound on the number of rows of the comment table.
MaxComments == 1

None == "None"

\* The reply_to_id of a form that answers no comment.
NoReply == 0

\* request.me: the authenticated users; "mod" has is_moderator set.
Users == {"mod", "u1", "u2", "u3"}

is_moderator(me) == me = "mod"

\* The post table: one post per combination of the two flags that gate
\* comment mutation, written by two different authors.
posts ==
    [p_open   |-> [author |-> "u1", is_visible |-> TRUE,  is_commentable |-> TRUE],
     p_closed |-> [author |-> "u2", is_visible |-> TRUE,  is_commentable |-> FALSE],
     p_hidden |-> [author |-> "u1", is_visible |-> FALSE, is_commentable |-> TRUE],
     p_gone   |-> [author |-> "u2", is_visible |-> FALSE, is_commentable |-> FALSE]]

Slugs == DOMAIN posts

\* A slug and a comment id that get_object_or_404 does not find.
NoSlug == "p_missing"

\* Submitted comment texts; the empty text does not validate.
Texts == {"t1", "t2"}

\* The clients a request may come from.
Clients == {"c1", "c2"}

Methods == {"GET", "POST"}

VARIABLES
    comments,       \* the Comment table: comment id -> row
    votes,          \* the CommentVote table: a bag of <<user, comment id>>
    comment_count,  \* Post.comment_count, as update_post_counters left it
    post_views,     \* the PostView table: rows [user, post, unread_comments]
    last_activity   \* User.last_activity_at, a logical time stamp

vars == <<comments, votes, comment_count, post_views, last_activity>>

\* The stored state as one value.
db ==
    [comments |-> comments, votes |-> votes, comment_count |-> comment_count,
     post_views |-> post_views, last_activity |-> last_activity]

CommentIds(d) == DOMAIN d.comments

----------------------------------------------------------------------------
(* Collaborators of the views.                                              *)

parse_ip_address(client) == <<"ip", client>>

parse_useragent(client) == <<"ua", client>>

\* CommentForm.is_valid: the text is present.
form_is_valid(POST) == POST.text \in Texts

\* Comment.update_post_counters(post): recount the post's live comments.
update_post_counters(d, slug) ==
    [d EXCEPT !.comment_count[slug] =
        Cardinality({i \in DOMAIN d.comments :
                        d.comments[i].post = slug /\ ~d.comments[i].is_deleted})]

\* PostView.increment_unread_comments(post).
increment_unread_comments(d, slug) ==
    [d EXCEPT !.post_views =
        {IF v.post = slug THEN [v EXCEPT !.unread_comments = @ + 1] ELSE v
            : v \in d.post_views}]

\* PostView.create_or_update(request, user, post).
create_or_update(d, me, slug) ==
    [d EXCEPT !.post_views =
        {v \in d.post_views : ~(v.user = me /\ v.post = slug)}
            \cup {[user |-> me, post |-> slug, unread_comments |-> 0]}]

\* request.me.update_last_activity(): stamped with the table's size.
update_last_activity(d, me) ==
    [d EXCEPT !.last_activity[me] = Len(d.comments)]

\* Comment.delete(deleted_by=...).
delete(comment, me) ==
    [comment EXCEPT !.is_deleted = TRUE, !.deleted_by = me]

\* Comment.undelete().
undelete(comment) ==
    [comment EXCEPT !.is_deleted = FALSE, !.deleted_by = None]

----------------------------------------------------------------------------
(* Results of a handler: the stored state it leaves, its response, and the *)
(* counter and bookkeeping calls it made.                                   *)

Result(d, kind, calls) ==
    [db |-> d, resp |-> [kind |-> kind, upvotes |-> 0], calls |-> calls]

Raise(d, kind) == Result(d, kind, {})


----------------------------------------------------------------------------
(* create_comment                                                           *)

\* The gate with the moderator's exemption left out.
comments_closed_for_all(post, me) == ~post.is_commentable

\* The commentable gate: closed posts take comments from moderators only.
comments_closed(post, me) == ~post.is_commentable /\ ~is_moderator(me)

\* The gate with the result of the check ignored.
rate_limit_ignored(is_ok) == FALSE

\* The rate-limit gate: is_ok is what Comment.check_rate_limits returned.
rate_limited(is_ok) == ~is_ok

\* form.save(commit=False) and the fields the view fills in before save().
new_comment(post_slug, me, POST, client) ==
    [post        |-> post_slug,
     author      |-> me,
     text        |-> POST.text,
     html        |-> None,
     reply_to_id |-> POST.reply_to_id,
     is_deleted  |-> FALSE,
     deleted_by  |-> None,
     is_pinned   |-> FALSE,
     upvotes     |-> 0,
     is_editable |-> TRUE,
     ipaddress   |-> parse_ip_address(client),
     useragent   |-> parse_useragent(client)]

create_comment(d, me, post_slug, method, POST, is_ok, client) ==
    IF post_slug \notin Slugs THEN Raise(d, "Http404")
    ELSE IF comments_closed(posts[post_slug], me) THEN Raise(d, "AccessDenied")
    ELSE IF method # "POST" THEN Result(d, "Http404", {})
    ELSE IF ~form_is_valid(POST) THEN Result(d, "error.html", {})
    ELSE IF rate_limited(is_ok) THEN Raise(d, "RateLimitException")
    ELSE
        LET saved    == [d EXCEPT !.comments =
                            Append(@, new_comment(post_slug, me, POST, client))]
            active   == update_last_activity(saved, me)
            counted  == update_post_counters(active, post_slug)
            bumped   == increment_unread_comments(counted, post_slug)
            viewed   == create_or_update(bumped, me, post_slug)
        IN  Result(viewed, "redirect",
                   {"save", "update_last_activity", "update_post_counters",
                    "increment_unread_comments", "create_or_update"})

----------------------------------------------------------------------------
(* edit_comment                                                             *)

\* The checks with the edit window left out.
edit_denied_no_window(me, comment) ==
    /\ ~is_moderator(me)
    /\ \/ comment.author # me
       \/ ~posts[comment.post].is_visible
       \/ ~posts[comment.post].is_commentable

\* The checks a non-moderator has to pass to edit.
edit_denied(me, comment) ==
    /\ ~is_moderator(me)
    /\ \/ comment.author # me
       \/ ~comment.is_editable
       \/ ~posts[comment.post].is_visible
       \/ ~posts[comment.post].is_commentable

\* The saved row with the cached rendering kept.
edited_comment_stale_html(comment, POST, client) ==
    [comment EXCEPT !.text = POST.text,
                    !.is_deleted = FALSE,
                    !.ipaddress = parse_ip_address(client),
                    !.useragent = parse_useragent(client)]

\* The row that a valid edit form saves.
edited_comment(comment, POST, client) ==
    [comment EXCEPT !.text = POST.text,
                    !.is_deleted = FALSE,
                    !.html = None,
                    !.ipaddress = parse_ip_address(client),
                    !.useragent = parse_useragent(client)]

edit_comment(d, me, comment_id, method, POST, client) ==
    IF comment_id \notin CommentIds(d) THEN Raise(d, "Http404")
    ELSE IF edit_denied(me, d.comments[comment_id]) THEN Raise(d, "AccessDenied")
    ELSE IF method = "POST" /\ form_is_valid(POST)
    THEN Result([d EXCEPT !.comments[comment_id] = edited_comment(@, POST, client)],
                "redirect", {"save"})
    ELSE Result(d, "comments/edit.html", {})

----------------------------------------------------------------------------
(* delete_comment                                                           *)

\* The checks with the hidden-post check left out.
delete_denied_hidden_ok(me, comment) ==
    /\ ~is_moderator(me)
    /\ \/ (comment.author # me /\ me # posts[comment.post].author)
       \/ ~comment.is_editable

\* The checks a non-moderator has to pass to reach the delete/undelete toggle.
delete_denied(me, comment) ==
    /\ ~is_moderator(me)
    /\ \/ (comment.author # me /\ me # posts[comment.post].author)
       \/ ~comment.is_editable
       \/ ~posts[comment.post].is_visible

\* The restore check made against the comment's author, not its deleter.
may_undelete_author(me, comment) == comment.author = me \/ is_moderator(me)

\* Who may restore a deleted comment.
may_undelete(me, comment) == comment.deleted_by = me \/ is_moderator(me)

delete_comment(d, me, comment_id) ==
    IF comment_id \notin CommentIds(d) THEN Raise(d, "Http404")
    ELSE
        LET comment == d.comments[comment_id] IN
        IF delete_denied(me, comment) THEN Raise(d, "AccessDenied")
        ELSE IF ~comment.is_deleted
        THEN Result(update_post_counters(
                        [d EXCEPT !.comments[comment_id] = delete(@, me)],
                        comment.post),
                    "redirect", {"save", "update_post_counters"})
        ELSE IF may_undelete(me, comment)
        THEN Result(update_post_counters(
                        [d EXCEPT !.comments[comment_id] = undelete(@)],
                        comment.post),
                    "redirect", {"save", "update_post_counters"})
        ELSE Raise(d, "AccessDenied")

----------------------------------------------------------------------------
(* pin_comment                                                              *)

\* The pin check made against the comment's author, not the post's.
pin_denied_comment_author(me, comment) ==
    ~is_moderator(me) /\ comment.author # me

\* Only a moderator or the post's author may pin.
pin_denied(me, comment) ==
    ~is_moderator(me) /\ posts[comment.post].author # me

pin_comment(d, me, comment_id) ==
    IF comment_id \notin CommentIds(d) THEN Raise(d, "Http404")
    ELSE IF pin_denied(me, d.comments[comment_id]) THEN Raise(d, "AccessDenied")
    ELSE Result([d EXCEPT !.comments[comment_id].is_pinned = ~@],
                "redirect", {"save"})

----------------------------------------------------------------------------
(* upvote_comment                                                           *)

\* CommentVote.upvote: get_or_create of the (user, comment) row; a created
\* row increments the stored counter.  Returns the new state and is_created.
upvote(d, me, comment_id) ==
    IF CopiesIn(<<me, comment_id>>, d.votes) > 0
    THEN [db |-> d, is_created |-> FALSE]
    ELSE [db |-> [d EXCEPT !.votes = @ (+) SetToBag({<<me, comment_id>>}),
                           !.comments[comment_id].upvotes = @ + 1],
          is_created |-> TRUE]

\* The reported counter incremented whether or not a vote was created.
reported_upvotes_always_more(loaded_upvotes, is_created) == loaded_upvotes + 1

\* The counter the view reports: the row as loaded before the vote.
reported_upvotes(loaded_upvotes, is_created) ==
    loaded_upvotes + (IF is_created THEN 1 ELSE 0)

upvote_comment(d, me, comment_id, method) ==
    IF method # "POST" THEN Raise(d, "Http404")
    ELSE IF comment_id \notin CommentIds(d) THEN Raise(d, "Http404")
    ELSE
        LET comment == d.comments[comment_id]
            voted   == upvote(d, me, comment_id)
        IN  [db    |-> voted.db,
             resp  |-> [kind    |-> "json",
                        upvotes |-> reported_upvotes(comment.upvotes, voted.is_created)],
             calls |-> IF voted.is_created THEN {"vote"} ELSE {}]

----------------------------------------------------------------------------
(* The requests and the environment.                                        *)

\* The data a form may post: a text (or none), answering a comment or not.
Posted(d) ==
    [text : Texts \cup {""}, reply_to_id : CommentIds(d) \cup {NoReply}]

\* request.POST of a GET request.
NoData == [text |-> "", reply_to_id |-> NoReply]

\* A request's method with its form data.
Submissions(d) ==
    {[method |-> "GET", POST |-> NoData]}
        \cup {[method |-> "POST", POST |-> p] : p \in Posted(d)}

\* Comment ids a request may name: the stored ones and one that is missing.
Named(d) == 1 .. (Len(d.comments) + 1)

\* Store what a handler left.
Commit(r) ==
    /\ comments' = r.db.comments
    /\ votes' = r.db.votes
    /\ comment_count' = r.db.comment_count
    /\ post_views' = r.db.post_views
    /\ last_activity' = r.db.last_activity

CreateComment ==
    /\ Len(comments) < MaxComments
    /\ \E me \in Users, slug \in Slugs \cup {NoSlug}, sub \in Submissions(db),
          is_ok \in BOOLEAN, client \in Clients :
           Commit(create_comment(db, me, slug, sub.method, sub.POST, is_ok, client))

EditComment ==
    \E me \in Users, id \in Named(db), sub \in Submissions(db), client \in Clients :
        Commit(edit_comment(db, me, id, sub.method, sub.POST, client))

DeleteComment ==
    \E me \in Users, id \in Named(db) :
        Commit(delete_comment(db, me, id))

PinComment ==
    \E me \in Users, id \in Named(db) :
        Commit(pin_comment(db, me, id))

UpvoteComment ==
    \E me \in Users, id \in Named(db), method \in Methods :
        Commit(upvote_comment(db, me, id, method))

\* Time passes: a comment's edit window closes, for good.
close_edit_window(d, comment_id) ==
    [d EXCEPT !.comments[comment_id].is_editable = FALSE]

EditWindowCloses ==
    \E id \in CommentIds(db) :
        /\ comments[id].is_editable
        /\ comments' = close_edit_window(db, id).comments
        /\ UNCHANGED <<votes, comment_count, post_views, last_activity>>

\* The comment is shown and its rendered form is cached.
render_comment(d, comment_id) ==
    [d EXCEPT !.comments[comment_id].html = <<"html", d.comments[comment_id].text>>]

RenderComment ==
    \E id \in CommentIds(db) :
        /\ comments[id].html = None
        /\ comments' = render_comment(db, id).comments
        /\ UNCHANGED <<votes, comment_count, post_views, last_activity>>

Init ==
    /\ comments = <<>>
    /\ votes = EmptyBag
    /\ comment_count = [s \in Slugs |-> 0]
    /\ post_views = {}
    /\ last_activity = [u \in Users |-> 0]

Next ==
    \/ CreateComment
    \/ EditComment
    \/ DeleteComment
    \/ PinComment
    \/ UpvoteComment
    \/ EditWindowCloses
    \/ RenderComment

Spec == Init /\ [][Next]_vars

----------------------------------------------------------------------------
(* Properties.  Each quantifies over every request that can be made in a   *)
(* reachable stored state and speaks about what its handler answers and    *)
(* leaves behind.                                                           *)

Denied(r)    == r.resp.kind = "AccessDenied"

Redirected(r) == r.resp.kind = "redirect"

\* The handler left the stored state as it was and made no call.
Untouched(r) == r.db = db /\ r.calls = {}

\* me is neither a moderator nor the user recorded as the comment's deleter.
Stranger(me, comment) == ~is_moderator(me) /\ me # comment.deleted_by

\* The comment is deleted before the request and active after it.
Reactivates(r, id) == comments[id].is_deleted /\ ~r.db.comments[id].is_deleted

\* C1: a deleted comment becomes active again only through a request whose
\* actor is a moderator or the comment's deleted_by; no request of any other
\* actor, through any endpoint (create, edit, delete/undelete, pin, upvote),
\* turns it back to active.
C1_OnlyDeleterOrModeratorRestores ==
    \A id \in CommentIds(db), me \in Users :
        Stranger(me, comments[id]) =>
            /\ \A sub \in Submissions(db), client \in Clients :
                   ~Reactivates(edit_comment(db, me, id, sub.method, sub.POST, client), id)
            /\ ~Reactivates(delete_comment(db, me, id), id)
            /\ ~Reactivates(pin_comment(db, me, id), id)
            /\ \A method \in Methods :
                   ~Reactivates(upvote_comment(db, me, id, method), id)
            /\ \A slug \in Slugs \cup {NoSlug}, sub \in Submissions(db),
                  is_ok \in BOOLEAN, client \in Clients :
                   ~Reactivates(create_comment(db, me, slug, sub.method, sub.POST,
                                               is_ok, client), id)

\* C2: the delete/undelete toggle on a deleted comment, requested by an
\* actor that is neither a moderator nor its deleted_by, ends in AccessDenied,
\* leaves the comment deleted with the same deleted_by and recomputes no
\* post counter.
C2_StrangerUndeleteDenied ==
    \A id \in CommentIds(db), me \in Users :
        (comments[id].is_deleted /\ Stranger(me, comments[id])) =>
            LET r == delete_comment(db, me, id) IN
            /\ Denied(r)
            /\ r.db.comments[id].is_deleted
            /\ r.db.comments[id].deleted_by = comments[id].deleted_by
            /\ "update_post_counters" \notin r.calls
            /\ Untouched(r)

\* C2's case: a deleted comment and a non-moderator who passes the first
\* checks of delete_comment (its author, within the window, on a visible
\* post) but is not the one who deleted it.
C2_Witness ==
    \E id \in CommentIds(db), me \in Users :
        /\ comments[id].is_deleted
        /\ Stranger(me, comments[id])
        /\ comments[id].deleted_by \in Users
        /\ ~delete_denied(me, comments[id])
        /\ Denied(delete_comment(db, me, id))

\* What may lie between two requests without any request mutating the
\* comment or its post: nothing, or the comment's edit window closing.
Afterwards(d, id) == {d, close_edit_window(d, id)}

\* C3: when delete_comment by A succeeds on an active comment, a following
\* delete_comment by the same A, no request having mutated the comment or
\* its post in between, succeeds as an undelete and leaves the comment
\* active with its text unchanged.
C3_DeleteThenUndeleteRestores ==
    \A id \in CommentIds(db), me \in Users :
        LET first == delete_comment(db, me, id) IN
        (~comments[id].is_deleted /\ Redirected(first)) =>
            \A later \in Afterwards(first.db, id) :
                LET second == delete_comment(later, me, id) IN
                /\ Redirected(second)
                /\ ~second.db.comments[id].is_deleted
                /\ second.db.comments[id].text = comments[id].text

\* The round trip of C3 when nothing at all lies between the two requests:
\* the second request of the same actor then restores the comment.
C3_ImmediateRoundTrip ==
    \A id \in CommentIds(db), me \in Users :
        LET first  == delete_comment(db, me, id)
            second == delete_comment(first.db, me, id)
        IN
        (~comments[id].is_deleted /\ Redirected(first)) =>
            /\ Redirected(second)
            /\ ~second.db.comments[id].is_deleted
            /\ second.db.comments[id].text = comments[id].text

\* The condition C4 gives for a delete of an active comment to succeed.
C4_ClaimedMayDelete(me, comment) ==
    \/ is_moderator(me)
    \/ (comment.author = me /\ comment.is_editable)
    \/ (posts[comment.post].author = me /\ comment.is_editable
            /\ posts[comment.post].is_visible)

\* The condition under which the code lets a delete of an active comment
\* succeed: the post has to be visible for the comment's author too.
C4_MayDelete(me, comment) ==
    \/ is_moderator(me)
    \/ /\ (comment.author = me \/ posts[comment.post].author = me)
       /\ comment.is_editable
       /\ posts[comment.post].is_visible

\* The outcome of a delete request on an active comment when it is, or is
\* not, allowed: the comment is deleted with deleted_by = me, or the request
\* ends in AccessDenied and the comment stays active.
C4_Outcome(me, id, allowed) ==
    LET r == delete_comment(db, me, id) IN
    IF allowed
    THEN /\ Redirected(r)
         /\ r.db.comments[id].is_deleted
         /\ r.db.comments[id].deleted_by = me
    ELSE /\ Denied(r)
         /\ ~r.db.comments[id].is_deleted
         /\ Untouched(r)

\* C4, as claimed: a delete of an active comment succeeds exactly when the
\* actor is a moderator, or the comment's author within the edit window, or
\* the post's author with the comment editable and the post visible.
C4_AsClaimed ==
    \A id \in CommentIds(db), me \in Users :
        ~comments[id].is_deleted =>
            C4_Outcome(me, id, C4_ClaimedMayDelete(me, comments[id]))

\* C4, amended: a delete of an active comment succeeds exactly when the actor
\* is a moderator, or is the comment's author or the post's author while the
\* comment is within its edit window and the post is visible; otherwise it
\* ends in AccessDenied and the comment stays active.
C4_DeleteActive ==
    \A id \in CommentIds(db), me \in Users :
        ~comments[id].is_deleted =>
            C4_Outcome(me, id, C4_MayDelete(me, comments[id]))

\* C4's case: an active, editable comment on a hidden post; its own author
\* is denied the delete and a moderator's delete marks it.
C4_Witness ==
    \E id \in CommentIds(db), me \in Users :
        /\ ~comments[id].is_deleted
        /\ ~is_moderator(me)
        /\ comments[id].author = me
        /\ comments[id].is_editable
        /\ ~posts[comments[id].post].is_visible
        /\ Denied(delete_comment(db, me, id))
        /\ delete_comment(db, "mod", id).db.comments[id].deleted_by = "mod"

\* The condition C5 gives for an edit to be allowed.
C5_MayEdit(me, comment) ==
    \/ is_moderator(me)
    \/ /\ comment.author = me
       /\ comment.is_editable
       /\ posts[comment.post].is_visible
       /\ posts[comment.post].is_commentable

\* C5: an edit request is allowed exactly when the actor is a moderator, or
\* is the comment's author within the edit window on a visible, commentable
\* post (a valid POST then saves the text, anything else shows the form);
\* otherwise it ends in AccessDenied and leaves the text unchanged.  So after
\* the window has closed the author is denied and a moderator still edits,
\* and the post's author, when neither, never edits.
C5_EditExactlyWhen ==
    \A id \in CommentIds(db), me \in Users,
       sub \in Submissions(db), client \in Clients :
        LET r       == edit_comment(db, me, id, sub.method, sub.POST, client)
            comment == comments[id]
        IN
        /\ IF C5_MayEdit(me, comment)
           THEN IF sub.method = "POST" /\ form_is_valid(sub.POST)
                THEN Redirected(r) /\ r.db.comments[id].text = sub.POST.text
                ELSE r.resp.kind = "comments/edit.html"
           ELSE /\ Denied(r)
                /\ r.db.comments[id].text = comment.text
                /\ Untouched(r)
        /\ (~comment.is_editable /\ comment.author = me /\ ~is_moderator(me))
                => Denied(r)
        /\ (posts[comment.post].author = me /\ comment.author # me
                /\ ~is_moderator(me)) => Denied(r)

\* C5's case: the window of a non-moderator's comment on an open post has
\* closed; the author's edit is denied and a moderator's edit is saved.
C5_Witness ==
    \E id \in CommentIds(db), POST \in Posted(db), client \in Clients :
        LET comment == comments[id] IN
        /\ ~comment.is_editable
        /\ ~is_moderator(comment.author)
        /\ posts[comment.post].is_visible
        /\ posts[comment.post].is_commentable
        /\ POST.text \in Texts /\ POST.text # comment.text
        /\ Denied(edit_comment(db, comment.author, id, "POST", POST, client))
        /\ Redirected(edit_comment(db, "mod", id, "POST", POST, client))

\* The number of CommentVote rows of a user for a comment.
VoteRows(d, me, id) == CopiesIn(<<me, id>>, d.votes)

\* Two successive POST upvote requests of me for comment id leave the
\* stored counter at n + gain, and the answers report first and second.
C6_TwoUpvotes(me, id, gain, first, second) ==
    LET one == upvote_comment(db, me, id, "POST")
        two == upvote_comment(one.db, me, id, "POST")
    IN  /\ VoteRows(two.db, me, id) <= 1
        /\ two.db.comments[id].upvotes = comments[id].upvotes + gain
        /\ one.resp.upvotes = first
        /\ two.resp.upvotes = second

\* C6, as claimed: for every user and every comment with stored counter n,
\* two successive POST upvote requests leave at most one vote row, the
\* counter at n + 1, and report n + 1 both times.
C6_AsClaimed ==
    \A id \in CommentIds(db), me \in Users :
        LET n == comments[id].upvotes IN
        C6_TwoUpvotes(me, id, 1, n + 1, n + 1)

\* C6, amended: for a user with no vote row for the comment yet, two
\* successive POST upvote requests leave exactly one vote row and the stored
\* counter at n + 1, and both answers report n + 1; for a user who has
\* voted already both requests change nothing and report n.  In no case is
\* there more than one vote row for a (user, comment) pair.
C6_UpvoteIdempotent ==
    \A id \in CommentIds(db), me \in Users :
        LET n == comments[id].upvotes IN
        /\ VoteRows(db, me, id) <= 1
        /\ IF VoteRows(db, me, id) = 0
           THEN C6_TwoUpvotes(me, id, 1, n + 1, n + 1)
           ELSE C6_TwoUpvotes(me, id, 0, n, n)

\* C6's case: a comment that has been upvoted already (n > 0) and a user
\* who has not voted for it yet.
C6_Witness ==
    \E id \in CommentIds(db), me \in Users :
        /\ comments[id].upvotes > 0
        /\ VoteRows(db, me, id) = 0
        /\ upvote_comment(db, me, id, "POST").resp.upvotes = comments[id].upvotes + 1

\* C7: on a post that is not commentable, a create request of a
\* non-moderator ends in AccessDenied whatever its method, form data and
\* rate-limit state, and persists nothing; a POST with valid content by a
\* moderator who passes the rate limit persists a new comment on that post.
C7_ClosedPostCreate ==
    \A slug \in Slugs, me \in Users, sub \in Submissions(db),
       is_ok \in BOOLEAN, client \in Clients :
        ~posts[slug].is_commentable =>
            LET r == create_comment(db, me, slug, sub.method, sub.POST, is_ok, client) IN
            /\ ~is_moderator(me) => (Denied(r) /\ Untouched(r))
            /\ (is_moderator(me) /\ sub.method = "POST"
                    /\ form_is_valid(sub.POST) /\ is_ok) =>
                   /\ Redirected(r)
                   /\ Len(r.db.comments) = Len(comments) + 1
                   /\ SubSeq(r.db.comments, 1, Len(comments)) = comments
                   /\ r.db.comments[Len(comments) + 1].post = slug
                   /\ r.db.comments[Len(comments) + 1].author = me
                   /\ r.db.comments[Len(comments) + 1].text = sub.POST.text

\* C7's case: a moderator's comment stored on a post closed for comments.
C7_Witness ==
    \E id \in CommentIds(db) :
        /\ ~posts[comments[id].post].is_commentable
        /\ is_moderator(comments[id].author)

\* C8: a POST create request with valid content whose actor, moderator or
\* not, fails the rate-limit check ends in RateLimitException, not
\* AccessDenied; no comment is persisted, no post counter recomputed, no
\* PostView row created or updated, and last activity is not refreshed.
C8_RateLimited ==
    \A slug \in Slugs, me \in Users, POST \in Posted(db), client \in Clients :
        (form_is_valid(POST) /\ ~comments_closed(posts[slug], me)) =>
            LET r == create_comment(db, me, slug, "POST", POST, FALSE, client) IN
            /\ r.resp.kind = "RateLimitException"
            /\ ~Denied(r)
            /\ r.db.comments = comments
            /\ r.db.comment_count = comment_count
            /\ r.db.post_views = post_views
            /\ r.db.last_activity = last_activity
            /\ r.calls = {}

\* C8's case: a stored comment whose author asks for another comment on the
\* same post and fails the rate limit; the counters and the view row a
\* create maintains are there to be touched.
C8_Witness ==
    \E id \in CommentIds(db), POST \in Posted(db), client \in Clients :
        LET comment == comments[id] IN
        /\ form_is_valid(POST)
        /\ comment_count[comment.post] > 0
        /\ \E v \in post_views : v.user = comment.author /\ v.post = comment.post
        /\ create_comment(db, comment.author, comment.post, "POST", POST,
                          FALSE, client).resp.kind = "RateLimitException"

\* C9: a successful edit leaves the comment with html cleared, not deleted,
\* ipaddress and useragent taken from the request, and is_pinned, the
\* upvote counter and the post as they were; a GET or a POST with invalid
\* content persists no change.
C9_EditEffects ==
    \A id \in CommentIds(db), me \in Users,
       sub \in Submissions(db), client \in Clients :
        LET r      == edit_comment(db, me, id, sub.method, sub.POST, client)
            before == comments[id]
            after  == r.db.comments[id]
        IN
        IF sub.method = "POST" /\ form_is_valid(sub.POST) /\ ~edit_denied(me, before)
        THEN    /\ Redirected(r)
                /\ after.html = None
                /\ ~after.is_deleted
                /\ after.ipaddress = parse_ip_address(client)
                /\ after.useragent = parse_useragent(client)
                /\ after.is_pinned = before.is_pinned
                /\ after.upvotes = before.upvotes
                /\ after.post = before.post
        ELSE r.db = db

\* C9's case: a deleted, pinned, upvoted comment with a cached rendering,
\* edited with success from another client.
C9_Witness ==
    \E id \in CommentIds(db), me \in Users, POST \in Posted(db), client \in Clients :
        LET before == comments[id] IN
        /\ before.is_deleted
        /\ before.html # None
        /\ before.is_pinned
        /\ before.upvotes > 0
        /\ before.ipaddress # parse_ip_address(client)
        /\ Redirected(edit_comment(db, me, id, "POST", POST, client))

\* C10: a pin request succeeds exactly when the actor is a moderator or the
\* author of the comment's post, whatever the edit window, the deletion
\* state and the post's visibility; it then flips is_pinned and changes
\* nothing else, so that a second pin restores the stored state; otherwise
\* it ends in AccessDenied and changes nothing.
C10_PinToggle ==
    \A id \in CommentIds(db), me \in Users :
        LET r == pin_comment(db, me, id) IN
        IF is_moderator(me) \/ posts[comments[id].post].author = me
        THEN /\ Redirected(r)
             /\ r.db = [db EXCEPT !.comments[id].is_pinned = ~comments[id].is_pinned]
             /\ r.db.comments[id].is_pinned # comments[id].is_pinned
             /\ Redirected(pin_comment(r.db, me, id))
             /\ pin_comment(r.db, me, id).db = db
        ELSE Denied(r) /\ Untouched(r)

\* C10's case: a pinned comment that is deleted, past its edit window and
\* on a hidden post, which the post's author can unpin.
C10_Witness ==
    \E id \in CommentIds(db) :
        LET comment == comments[id] IN
        /\ comment.is_pinned
        /\ comment.is_deleted
        /\ ~comment.is_editable
        /\ ~posts[comment.post].is_visible
        /\ ~is_moderator(posts[comment.post].author)
        /\ ~pin_comment(db, posts[comment.post].author, id).db.comments[id].is_pinned

============================================================================
